---- MODULE Spec2Model ----
(***************************************************************************)
(* cosmos-fee-indexer: the failover RPC client (services/cosmos-rpc.ts),   *)
(* the per-chain indexing engine (services/indexer.ts) and the storage     *)
(* model it writes through (db/models.ts, db/client.ts).                   *)
(*                                                                         *)
(* The specifications share the variables:                                 *)
(*   Spec       the indexing engine of one chain against storage; the RPC  *)
(*              client is seen through the outcomes of its calls.          *)
(*   SpecFair   Spec where every pending call and sleep settles.           *)
(*   SpecLive   one run of the engine that is never stopped, the head      *)
(*              staying at MaxHead, every pending call settling.           *)
(*   SpecRpc    one CosmosRPCClient with several calls in flight at once,  *)
(*              as processBlock's Promise.all and processBatch's fan-out   *)
(*              produce them.                                              *)
(*   SpecBatch  one call of processBatch, fetch by fetch, over windows of  *)
(*              more than one chunk.                                       *)
(*   SpecMain, SpecStore, SpecFees, SpecApi                                *)
(*              main() of index.ts, the rows of table blocks, the fee      *)
(*              extractor and the /fees handler.                           *)
(***************************************************************************)
EXTENDS Integers, Sequences, FiniteSets, TLC

\* ------------------------------------------------------------------ bounds
\* Number of valid RPC URLs of the client (rpcUrls.length).
NumEndpoints == 2
\* Number of calls that may be in flight on one client at once.
NumCalls == 2
\* Number of chains of the configuration (Object.entries(appConfig.chains)).
NumChains == 3
\* Number of INSERTs that all insertBlocksBatch calls together execute.
MaxInserts == 3
\* Number of transaction results of a block result.
MaxTxs == 2

\* chainConfig.start_height of the chain.
StartHeight == 1
\* chainConfig.batch_size of the chain (0 stands for "not configured").
BatchSizeCfg == 2
\* chainConfig.retry_attempts of the chain (0 stands for "not configured").
RetryAttemptsCfg == 2
\* The chain's head stays within StartHeight-1 .. MaxHead.
MaxHead == 3
\* chainConfig.retry_delay_ms of the chain (0 stands for "not configured").
RetryDelayMsCfg == 500
\* processBatch alone: the largest window it is called with, the largest
\* chainConfig.retry_attempts it is called under, and the number of heights
\* at the top of the window that the endpoints have (a fetch of a lower
\* height fails with not-found).
MaxWindow == 11
MaxRetryCfg == 2
MaxRetained == 2

\* const concurrency = 10 of processBatch
Concurrency == 10

\* null of the source (workingRpcIndex, lastHeight, an absent cursor row)
Null == -1

Endpoints == 0 .. (NumEndpoints - 1)
Calls == 1 .. NumCalls
Chains == 1 .. NumChains

VARIABLES
    \* ---- CosmosRPCClient
    currentClientIndex,   \* round-robin pointer
    workingRpcIndex,      \* sticky pointer, Null until a request succeeds
    call,                 \* per call slot: the position of one async method call
    \* ---- CosmosFeeIndexer
    isRunning,
    shouldStop,
    pc,                   \* the await at which start() / indexBlocks() is suspended
    lastHeight,           \* const lastHeight of indexBlocks
    currentHeight,
    latestHeight,
    batchStart,
    batchEnd,
    height,               \* loop variable of processBatch's outer loop
    tasks,                \* processBlock calls in flight: height -> [attempt, st]
    blocks,               \* the array blocks of processBatch, in push order
    txi,                  \* insertBlocksBatch: index of the next row to insert
    tx_rows,              \* rows written inside the open transaction
    \* ---- storage (PostgreSQL)
    db_blocks,            \* block_number of the rows of table blocks for the chain
    db_cursor,            \* indexing_state.last_indexed_height, Null when no row
    \* ---- ghosts
    storedEnd,            \* upper bound of the latest window whose rows were committed
    prevEnd,              \* upper bound of the window this run completed last
    firstFetched,         \* the first height this run dispatched a fetch for
    loops,                \* indexBlocks invocations that have not returned
    startIgnored,         \* a start() of this run returned at the isRunning test
    startResult,          \* how the promise of the latest start() settled
    \* ---- main (orchestration of the engines of all chains)
    engine,               \* per chain: where that chain's start() promise is
    mainPc,               \* the await at which main() is suspended
    exitCode,             \* Null while the process lives, else the code of process.exit
    \* ---- table blocks, row by row (BlockModel on PostgreSQL)
    blocks_table,         \* the committed rows of table blocks
    store_tx,             \* the INSERTs executed in the open transaction, in order
    store_now,            \* database clock: the number of INSERTs committed
    latestCommit,         \* ghost: per key, the values of the latest committed INSERT
    \* ---- fee extractor
    blockResult,          \* the argument of the latest call: whether it has
                          \* txs_results, and the results
    total_fees,           \* what extractFeesFromBlock returned for it
    \* ---- /fees
    apiPc,                \* "idle", "awaiting" (the storage query), "done"
    req_query,            \* req.query of the request
    res_status,           \* status of the response sent, 0 before it is sent
    storage_query,        \* the query made to the block model, if any
    \* ---- one call of processBatch, fetch by fetch
    pbPc,                 \* "idle", "dispatch" (the inner loop), "await" (the
                          \* Promise.all), "returned", "stored"
    startHeight,          \* the arguments of the call
    endHeight,
    pbRetryAttempts,
    pbRetryDelay,
    pbShouldStop,         \* this.shouldStop
    pbHeight,             \* loop variable of the outer loop
    batchPromises,        \* the pending processBlock calls: blockHeight ->
                          \* [attempt, st, delay of the sleep, nf]; nf is a
                          \* ghost: whether a fetch of the attempt that
                          \* failed last failed with not-found, as the
                          \* "first" of the two or "later" than the other's
                          \* failure, or "no"
    pbBlocks,             \* the array blocks, in push order
    pbSettled             \* ghost: blockHeight -> how its processBlock call
                          \* settled: "record", "noRecord" (null), "failed"

rpcVars == <<currentClientIndex, workingRpcIndex, call>>

mainVars == <<engine, mainPc, exitCode>>

engineVars == <<isRunning, shouldStop, pc, lastHeight, currentHeight, latestHeight,
                batchStart, batchEnd, height, tasks, blocks, txi, tx_rows,
                db_blocks, db_cursor, storedEnd, prevEnd, firstFetched,
                loops, startIgnored, startResult>>

storeVars == <<blocks_table, store_tx, store_now, latestCommit>>

feeVars == <<blockResult, total_fees>>

apiVars == <<apiPc, req_query, res_status, storage_query>>

batchVars == <<pbPc, startHeight, endHeight, pbRetryAttempts, pbRetryDelay,
               pbShouldStop, pbHeight, batchPromises, pbBlocks, pbSettled>>

vars == <<currentClientIndex, workingRpcIndex, call,
          isRunning, shouldStop, pc, lastHeight, currentHeight, latestHeight,
          batchStart, batchEnd, height, tasks, blocks, txi, tx_rows,
          db_blocks, db_cursor, storedEnd, prevEnd, firstFetched,
          loops, startIgnored, startResult, engine, mainPc, exitCode,
          blocks_table, store_tx, store_now, latestCommit,
          blockResult, total_fees,
          apiPc, req_query, res_status, storage_query,
          pbPc, startHeight, endHeight, pbRetryAttempts, pbRetryDelay,
          pbShouldStop, pbHeight, batchPromises, pbBlocks, pbSettled>>

\* ------------------------------------------------------- CosmosRPCClient

RpcOps == {"getBlockResults", "getBlock", "getLatestBlockHeight"}

\* What one request can come back with: a usable result, a connection refused
\* or an abort after the 30 s timeout (errors carrying a code), HTTP 404, or
\* any other failure (other HTTP status, RPC error payload, missing result).
Responses == {"ok", "ECONNREFUSED", "ETIMEDOUT", "http404", "error"}

\* fetchError.code === 'ECONNREFUSED' || fetchError.code === 'ETIMEDOUT'
HasNetworkCode(resp) == resp \in {"ECONNREFUSED", "ETIMEDOUT"}

\* The error thrown inside the try block for a response: getBlockResults and
\* getBlock turn HTTP 404 into `Block h not found`; getLatestBlockHeight has
\* no 404 branch and throws `HTTP 404: <statusText>`.
MessageIncludesNotFound(op, resp) ==
    /\ op \in {"getBlockResults", "getBlock"}
    /\ resp = "http404"

\* Mutant: the not-found branch missing, as in getLatestBlockHeight.
ThrowsNotFound_never(op, resp) == FALSE

\* if (fetchError.message.includes('not found')) throw ... ; the branch after
\* the `continue` of the network errors. getLatestBlockHeight has no such branch.
ThrowsNotFound(op, resp) ==
    /\ ~HasNetworkCode(resp)
    /\ MessageIncludesNotFound(op, resp)

\* getCurrentUrl(): index of the URL the next request goes to.
getCurrentUrl(working, current) ==
    IF working # Null THEN working ELSE current

\* Mutant: the rotation forgets to unpin the sticky pointer.
rotateClient_keepsSticky(working, current) ==
    LET currentIndex == IF working # Null THEN working ELSE current
    IN  <<working, (currentIndex + 1) % NumEndpoints>>

\* Mutant: the rotation does not wrap around at the last URL.
rotateClient_noWrap(working, current) ==
    LET currentIndex == IF working # Null THEN working ELSE current
    IN  <<Null, currentIndex + 1>>

\* rotateClient(): <<workingRpcIndex, currentClientIndex>> afterwards.
rotateClient(working, current) ==
    LET currentIndex == IF working # Null THEN working ELSE current
    IN  <<Null, (currentIndex + 1) % NumEndpoints>>

\* markRpcAsWorking(): <<workingRpcIndex, currentClientIndex>> afterwards.
markRpcAsWorking(working, current) ==
    IF working = Null THEN <<current, current>> ELSE <<working, current>>

\* ------------------------------------------------------ storage, engine

Heights == StartHeight .. MaxHead

\* What a head query can return: getLatestBlockHeight throws on height 0, and
\* the head may be below start_height or below an earlier answer.
Heads == {h \in (StartHeight - 1) .. MaxHead : h > 0}

\* const batchSize = this.chainConfig.batch_size || 100
batchSize == IF BatchSizeCfg # 0 THEN BatchSizeCfg ELSE 100

\* const retryAttempts = this.chainConfig.retry_attempts || 3
retryAttempts == IF RetryAttemptsCfg # 0 THEN RetryAttemptsCfg ELSE 3

Min(a, b) == IF a <= b THEN a ELSE b

MaxOf(S) == CHOOSE x \in S : \A y \in S : y <= x

\* Mutant: the window is not clamped to the head.
WindowEnd_unclamped(cur, size, latest) == cur + size

\* Math.min(currentHeight + batchSize, latestHeight)
WindowEnd(cur, size, latest) == Min(cur + size, latest)

\* const batchEnd = Math.min(currentHeight + batchSize, latestHeight)
BatchEndOf(cur, latest) == WindowEnd(cur, batchSize, latest)

\* const batchStart = currentHeight + 1
BatchStartOf(cur) == cur + 1

\* Mutant: ON CONFLICT (chain_id) DO NOTHING: only the first cursor is kept.
updateIndexingState_insertOnly(old, h) == IF old = Null THEN h ELSE old

\* updateIndexingState: the upsert's last_indexed_height, given the row's old
\* value (Null: no row) and the height passed.
updateIndexingState(old, h) == h

Range(q) == {q[i] : i \in 1 .. Len(q)}

\* Mutant: the array is returned in push order.
SortBlocks_pushOrder(q) == q

\* blocks.sort((a, b) => a.block_number - b.block_number): a stable sort of
\* the array by block_number.
SortBlocks(q) ==
    LET RECURSIVE Insert(_, _), Sort(_)
        Insert(x, sorted) ==
            IF sorted = <<>> \/ x < Head(sorted) THEN <<x>> \o sorted
            ELSE <<Head(sorted)>> \o Insert(x, Tail(sorted))
        Sort(a) == IF a = <<>> THEN <<>> ELSE Insert(a[Len(a)], Sort(SubSeq(a, 1, Len(a) - 1)))
    IN  Sort(q)

\* Mutant: the inner loop runs to the end of the window.
ChunkHeights_wholeWindow(h, endH, stop) == IF stop THEN {} ELSE h .. endH

\* Mutant: the inner loop does not test shouldStop.
ChunkHeights_ignoresStop(h, endH, stop) ==
    {x \in h .. (h + Concurrency - 1) : x <= endH}

\* The heights the inner loop of processBatch dispatches for the chunk that
\* starts at h: the loop runs synchronously, so shouldStop has one value.
ChunkHeights(h, endH, stop) ==
    IF stop THEN {} ELSE {x \in h .. (h + Concurrency - 1) : x <= endH}

EmptyTasks == [x \in {} |-> [attempt |-> 0, st |-> "fetching"]]

\* Mutant: the loop stays at the height it was at.
AdvancedHeight_stays(cur, endH) == cur

\* currentHeight = batchEnd at the end of the loop body, whatever the
\* heights of the window gave.
AdvancedHeight(cur, endH) == endH

\* Mutant: the await is over as soon as it is reached.
AllSettled_atOnce(promises) == TRUE

\* await Promise.all(batchPromises) is over: none of the calls is pending
\* (each promise has a catch, so none rejects).
AllSettled(promises) == DOMAIN promises = {}

InitEngine ==
    /\ isRunning = FALSE
    /\ shouldStop = FALSE
    /\ pc = "idle"
    /\ lastHeight = Null
    /\ currentHeight = Null
    /\ latestHeight = Null
    /\ batchStart = Null
    /\ batchEnd = Null
    /\ height = Null
    /\ tasks = EmptyTasks
    /\ blocks = <<>>
    /\ txi = 0
    /\ tx_rows = {}
    /\ db_blocks = {}
    /\ db_cursor = Null
    /\ storedEnd = Null
    /\ prevEnd = Null
    /\ firstFetched = Null
    /\ loops = 0
    /\ startIgnored = FALSE
    /\ startResult = "none"

UnchangedDb == UNCHANGED <<db_blocks, db_cursor, storedEnd>>

UnchangedWindow ==
    UNCHANGED <<latestHeight, batchStart, batchEnd, height, tasks, blocks, txi, tx_rows>>

\* The block-scoped values of one loop iteration are gone with it.
ResetWindow ==
    /\ latestHeight' = Null
    /\ batchStart' = Null
    /\ batchEnd' = Null
    /\ height' = Null
    /\ tasks' = EmptyTasks
    /\ blocks' = <<>>
    /\ txi' = 0
    /\ tx_rows' = {}

\* Mutant: start() without the test of isRunning.
AlreadyRunning_untested(running) == FALSE

\* if (this.isRunning) { logger.warn(...); return; }
AlreadyRunning(running) == running

\* start(): not running; the flags are set and indexBlocks issues the cursor read.
Start ==
    /\ ~AlreadyRunning(isRunning)
    /\ isRunning' = TRUE
    /\ shouldStop' = FALSE
    /\ loops' = loops + 1
    /\ startResult' = "pending"
    /\ pc' = "getLastIndexedHeight"
    /\ UNCHANGED <<lastHeight, currentHeight, prevEnd, firstFetched, startIgnored, rpcVars, mainVars, storeVars, feeVars, apiVars, batchVars>>
    /\ UnchangedWindow
    /\ UnchangedDb

\* start() while running: logs a warning and returns.
StartWhileRunning ==
    /\ AlreadyRunning(isRunning)
    /\ startIgnored' = TRUE
    /\ UNCHANGED <<isRunning, shouldStop, loops, startResult, pc, lastHeight,
                   currentHeight, prevEnd, firstFetched, rpcVars, mainVars, storeVars, feeVars, apiVars, batchVars>>
    /\ UnchangedWindow
    /\ UnchangedDb

\* stop(): sets the flag, whether or not the engine is running.
Stop ==
    /\ ~shouldStop
    /\ shouldStop' = TRUE
    /\ UNCHANGED <<isRunning, loops, startIgnored, startResult, pc, lastHeight, currentHeight, prevEnd, firstFetched, rpcVars, mainVars, storeVars, feeVars, apiVars, batchVars>>
    /\ UnchangedWindow
    /\ UnchangedDb

\* indexBlocks exits or throws: start()'s finally clears isRunning, and the
\* promise of start() settles as `result`.
LeaveRun(result) ==
    /\ isRunning' = FALSE
    /\ startResult' = result
    /\ pc' = "idle"
    /\ lastHeight' = Null
    /\ currentHeight' = Null
    /\ prevEnd' = Null
    /\ firstFetched' = Null
    /\ loops' = loops - 1
    /\ startIgnored' = FALSE
    /\ ResetWindow

\* Mutant: the run always begins below start_height, cursor or not.
InitialHeight_ignoresCursor(last) == StartHeight - 1

\* lastHeight !== null ? lastHeight : this.chainConfig.start_height - 1
InitialHeight(last) == IF last # Null THEN last ELSE StartHeight - 1

\* getLastIndexedHeight returns: the cursor row's value, or null.
GetLastIndexedHeightReturns ==
    /\ pc = "getLastIndexedHeight"
    /\ lastHeight' = db_cursor
    /\ currentHeight' = InitialHeight(db_cursor)
    /\ pc' = "loop"
    /\ UNCHANGED <<isRunning, loops, startIgnored, startResult, shouldStop, prevEnd, firstFetched, rpcVars, mainVars, storeVars, feeVars, apiVars, batchVars>>
    /\ UnchangedWindow
    /\ UnchangedDb

\* getLastIndexedHeight throws: indexBlocks throws, start() rejects.
GetLastIndexedHeightFails ==
    /\ pc = "getLastIndexedHeight"
    /\ LeaveRun("rejected")
    /\ UNCHANGED <<shouldStop, rpcVars, mainVars, storeVars, feeVars, apiVars, batchVars>>
    /\ UnchangedDb

\* Mutant: the loop never tests the stop flag.
LoopContinues_always(stop) == TRUE

\* Mutant: the loop is left at its first test.
LoopContinues_never(stop) == FALSE

\* while (!this.shouldStop)
LoopContinues(stop) == ~stop

\* while (!this.shouldStop): leave the loop, or query the head.
LoopCheck ==
    /\ pc = "loop"
    /\ IF ~LoopContinues(shouldStop)
       THEN /\ LeaveRun("resolved")
            /\ UNCHANGED shouldStop
       ELSE /\ pc' = "getLatestBlockHeight"
            /\ UNCHANGED <<isRunning, loops, startIgnored, startResult, shouldStop,
                           lastHeight, currentHeight, prevEnd, firstFetched>>
            /\ UnchangedWindow
    /\ UNCHANGED <<rpcVars, mainVars, storeVars, feeVars, apiVars, batchVars>>
    /\ UnchangedDb

\* Mutant: only a head equal to currentHeight counts as caught up.
CaughtUp_onlyEqual(cur, latest) == cur = latest

\* if (currentHeight >= latestHeight)
CaughtUp(cur, latest) == cur >= latest

\* getLatestBlockHeight returns h: caught up (sleep 5 s), or the window is
\* computed and processBatch starts.
GetLatestBlockHeightReturns(h) ==
    /\ pc = "getLatestBlockHeight"
    /\ IF CaughtUp(currentHeight, h)
       THEN /\ latestHeight' = h
            /\ pc' = "sleepCaughtUp"
            /\ UNCHANGED <<batchStart, batchEnd, height, tasks, blocks, txi, tx_rows>>
       ELSE /\ latestHeight' = h
            /\ batchEnd' = BatchEndOf(currentHeight, h)
            /\ batchStart' = BatchStartOf(currentHeight)
            /\ height' = BatchStartOf(currentHeight)
            /\ blocks' = <<>>
            /\ pc' = "dispatch"
            /\ UNCHANGED <<tasks, txi, tx_rows>>
    /\ UNCHANGED <<isRunning, loops, startIgnored, startResult, shouldStop, lastHeight, currentHeight, prevEnd, firstFetched, rpcVars, mainVars, storeVars, feeVars, apiVars, batchVars>>
    /\ UnchangedDb

\* A loop-level error: the catch block logs and sleeps 5 s; currentHeight
\* keeps its value.
LoopError ==
    /\ pc' = "sleepError"
    /\ ResetWindow
    /\ UNCHANGED <<isRunning, loops, startIgnored, startResult, shouldStop, lastHeight, currentHeight, prevEnd, firstFetched, rpcVars, mainVars, storeVars, feeVars, apiVars, batchVars>>

\* getLatestBlockHeight throws.
GetLatestBlockHeightFails ==
    /\ pc = "getLatestBlockHeight"
    /\ LoopError
    /\ UnchangedDb

\* a 5 s sleep of the loop is over: `continue`, or the end of the catch block.
SleepElapsed ==
    /\ pc \in {"sleepCaughtUp", "sleepError"}
    /\ pc' = "loop"
    /\ ResetWindow
    /\ UNCHANGED <<isRunning, loops, startIgnored, startResult, shouldStop, lastHeight, currentHeight, prevEnd, firstFetched, rpcVars, mainVars, storeVars, feeVars, apiVars, batchVars>>
    /\ UnchangedDb

\* processBatch, one pass of the outer loop: dispatch a chunk and await it.
DispatchChunk ==
    /\ pc = "dispatch"
    /\ height <= batchEnd
    /\ tasks' = [x \in ChunkHeights(height, batchEnd, shouldStop) |->
                    [attempt |-> 0, st |-> "fetching"]]
    /\ firstFetched' = IF firstFetched = Null /\ ~shouldStop
                       THEN height ELSE firstFetched
    /\ pc' = "awaitChunk"
    /\ UNCHANGED <<isRunning, loops, startIgnored, startResult, shouldStop, lastHeight, currentHeight, prevEnd, rpcVars, mainVars, storeVars, feeVars, apiVars, batchVars,
                   latestHeight, batchStart, batchEnd, height, blocks, txi, tx_rows>>
    /\ UnchangedDb

\* processBlock(h): both RPC calls of the attempt returned; the record is
\* pushed.
AttemptSucceeds(h) ==
    /\ pc = "awaitChunk"
    /\ h \in DOMAIN tasks
    /\ tasks[h].st = "fetching"
    /\ blocks' = Append(blocks, h)
    /\ tasks' = [x \in DOMAIN tasks \ {h} |-> tasks[x]]
    /\ UNCHANGED <<isRunning, loops, startIgnored, startResult, shouldStop, pc, lastHeight, currentHeight, prevEnd, firstFetched, rpcVars, mainVars, storeVars, feeVars, apiVars, batchVars,
                   latestHeight, batchStart, batchEnd, height, txi, tx_rows>>
    /\ UnchangedDb

\* processBlock(h): an RPC call of the attempt threw not-found; null is
\* returned and nothing is pushed.
AttemptNotFound(h) ==
    /\ pc = "awaitChunk"
    /\ h \in DOMAIN tasks
    /\ tasks[h].st = "fetching"
    /\ tasks' = [x \in DOMAIN tasks \ {h} |-> tasks[x]]
    /\ UNCHANGED <<isRunning, loops, startIgnored, startResult, shouldStop, pc, lastHeight, currentHeight, prevEnd, firstFetched, rpcVars, mainVars, storeVars, feeVars, apiVars, batchVars,
                   latestHeight, batchStart, batchEnd, height, blocks, txi, tx_rows>>
    /\ UnchangedDb

\* processBlock(h): an RPC call of the attempt threw another error: back off
\* and retry, or throw after the last attempt (processBatch logs it).
AttemptFails(h) ==
    /\ pc = "awaitChunk"
    /\ h \in DOMAIN tasks
    /\ tasks[h].st = "fetching"
    /\ tasks' = IF tasks[h].attempt < retryAttempts - 1
                THEN [tasks EXCEPT ![h].st = "backoff"]
                ELSE [x \in DOMAIN tasks \ {h} |-> tasks[x]]
    /\ UNCHANGED <<isRunning, loops, startIgnored, startResult, shouldStop, pc, lastHeight, currentHeight, prevEnd, firstFetched, rpcVars, mainVars, storeVars, feeVars, apiVars, batchVars,
                   latestHeight, batchStart, batchEnd, height, blocks, txi, tx_rows>>
    /\ UnchangedDb

\* processBlock(h): the backoff sleep is over, the next attempt starts.
BackoffElapsed(h) ==
    /\ pc = "awaitChunk"
    /\ h \in DOMAIN tasks
    /\ tasks[h].st = "backoff"
    /\ tasks' = [tasks EXCEPT ![h] = [attempt |-> tasks[h].attempt + 1, st |-> "fetching"]]
    /\ UNCHANGED <<isRunning, loops, startIgnored, startResult, shouldStop, pc, lastHeight, currentHeight, prevEnd, firstFetched, rpcVars, mainVars, storeVars, feeVars, apiVars, batchVars,
                   latestHeight, batchStart, batchEnd, height, blocks, txi, tx_rows>>
    /\ UnchangedDb

\* await Promise.all(batchPromises) resolves; height += concurrency.
ChunkSettled ==
    /\ pc = "awaitChunk"
    /\ AllSettled(tasks)
    /\ height' = height + Concurrency
    /\ pc' = "dispatch"
    /\ UNCHANGED <<isRunning, loops, startIgnored, startResult, shouldStop, lastHeight, currentHeight, prevEnd, firstFetched, rpcVars, mainVars, storeVars, feeVars, apiVars, batchVars,
                   latestHeight, batchStart, batchEnd, tasks, blocks, txi, tx_rows>>
    /\ UnchangedDb

\* processBatch returns the sorted blocks; indexBlocks opens the insert
\* transaction, or, with no block, advances currentHeight at once.
BatchReturns ==
    /\ pc = "dispatch"
    /\ height > batchEnd
    /\ IF Len(blocks) > 0
       THEN /\ blocks' = SortBlocks(blocks)
            /\ txi' = 1
            /\ pc' = "insertBlocksBatch"
            /\ UNCHANGED <<currentHeight, prevEnd, firstFetched, latestHeight,
                           batchStart, batchEnd,
                           height, tasks, tx_rows>>
       ELSE /\ currentHeight' = AdvancedHeight(currentHeight, batchEnd)
            /\ prevEnd' = batchEnd
            /\ UNCHANGED firstFetched
            /\ pc' = "loop"
            /\ ResetWindow
    /\ UNCHANGED <<isRunning, loops, startIgnored, startResult, shouldStop, lastHeight, rpcVars, mainVars, storeVars, feeVars, apiVars, batchVars>>
    /\ UnchangedDb

\* insertBlocksBatch: one INSERT ... ON CONFLICT DO UPDATE inside the
\* transaction.
TxInsertRow ==
    /\ pc = "insertBlocksBatch"
    /\ txi <= Len(blocks)
    /\ tx_rows' = tx_rows \cup {blocks[txi]}
    /\ txi' = txi + 1
    /\ UNCHANGED <<isRunning, loops, startIgnored, startResult, shouldStop, pc, lastHeight, currentHeight, prevEnd, firstFetched, rpcVars, mainVars, storeVars, feeVars, apiVars, batchVars,
                   latestHeight, batchStart, batchEnd, height, tasks, blocks>>
    /\ UnchangedDb

\* insertBlocksBatch: COMMIT; indexBlocks then issues updateIndexingState.
TxCommit ==
    /\ pc = "insertBlocksBatch"
    /\ txi > Len(blocks)
    /\ db_blocks' = db_blocks \cup tx_rows
    /\ storedEnd' = batchEnd
    /\ tx_rows' = {}
    /\ pc' = "updateIndexingState"
    /\ UNCHANGED <<isRunning, loops, startIgnored, startResult, shouldStop, lastHeight, currentHeight, prevEnd, firstFetched, rpcVars, mainVars, storeVars, feeVars, apiVars, batchVars,
                   latestHeight, batchStart, batchEnd, height, tasks, blocks, txi,
                   db_cursor>>

\* insertBlocksBatch: BEGIN, an INSERT or COMMIT fails: ROLLBACK, the error
\* reaches the loop's catch block.
TxFails ==
    /\ pc = "insertBlocksBatch"
    /\ LoopError
    /\ UnchangedDb

\* updateIndexingState(chainId, batchEnd) succeeds; getBlockCount is issued.
UpdateIndexingStateReturns ==
    /\ pc = "updateIndexingState"
    /\ db_cursor' = updateIndexingState(db_cursor, batchEnd)
    /\ pc' = "getBlockCount"
    /\ UNCHANGED <<isRunning, loops, startIgnored, startResult, shouldStop, lastHeight, currentHeight, prevEnd, firstFetched, rpcVars, mainVars, storeVars, feeVars, apiVars, batchVars, db_blocks, storedEnd>>
    /\ UnchangedWindow

\* updateIndexingState throws.
UpdateIndexingStateFails ==
    /\ pc = "updateIndexingState"
    /\ LoopError
    /\ UnchangedDb

\* getBlockCount returns; currentHeight = batchEnd.
GetBlockCountReturns ==
    /\ pc = "getBlockCount"
    /\ currentHeight' = AdvancedHeight(currentHeight, batchEnd)
    /\ prevEnd' = batchEnd
    /\ pc' = "loop"
    /\ ResetWindow
    /\ UNCHANGED <<isRunning, loops, startIgnored, startResult, shouldStop, lastHeight, firstFetched, rpcVars, mainVars, storeVars, feeVars, apiVars, batchVars>>
    /\ UnchangedDb

\* getBlockCount throws.
GetBlockCountFails ==
    /\ pc = "getBlockCount"
    /\ LoopError
    /\ UnchangedDb

\* The shutdown handler of main: stop(), db.close(), process.exit(0). The
\* process ends wherever its engine is; an open transaction is never
\* committed. A new process starts with a new engine.
Shutdown ==
    /\ isRunning
    /\ LeaveRun("none")
    /\ shouldStop' = FALSE
    /\ UNCHANGED <<rpcVars, mainVars, storeVars, feeVars, apiVars, batchVars>>
    /\ UnchangedDb

Next ==
    \/ Start
    \/ StartWhileRunning
    \/ Stop
    \/ GetLastIndexedHeightReturns
    \/ GetLastIndexedHeightFails
    \/ LoopCheck
    \/ \E h \in Heads : GetLatestBlockHeightReturns(h)
    \/ GetLatestBlockHeightFails
    \/ SleepElapsed
    \/ DispatchChunk
    \/ \E h \in Heights : AttemptSucceeds(h)
    \/ \E h \in Heights : AttemptNotFound(h)
    \/ \E h \in Heights : AttemptFails(h)
    \/ \E h \in Heights : BackoffElapsed(h)
    \/ ChunkSettled
    \/ BatchReturns
    \/ TxInsertRow
    \/ TxCommit
    \/ TxFails
    \/ UpdateIndexingStateReturns
    \/ UpdateIndexingStateFails
    \/ GetBlockCountReturns
    \/ GetBlockCountFails
    \/ Shutdown

\* ------------------------------------------- CosmosRPCClient, calls

\* A call slot. attempt, url: the loop variable and the URL of the request in
\* flight. Ghost fields: rotations counts this call's rotateClient() calls,
\* got404 records an HTTP 404 answered to getBlockResults / getBlock, first is
\* the URL of the first request while no other call has been in flight since
\* this call started (Null as soon as a call overlapped it).
IdleCall ==
    [pc |-> "idle", op |-> "none", attempt |-> 0, url |-> Null, first |-> Null,
     rotations |-> 0, got404 |-> FALSE, result |-> "none"]

InFlight(c) == call[c].pc = "inflight"

InitRpc ==
    /\ currentClientIndex = 0
    /\ workingRpcIndex = Null
    /\ call = [c \in Calls |-> IdleCall]

\* A caller invokes getBlockResults / getBlock / getLatestBlockHeight: the
\* method runs synchronously up to its first await, so the URL of the first
\* attempt is selected and the request is sent in the same step.
RpcStartCall(c, op) ==
    /\ call[c].pc = "idle"
    /\ LET alone == \A d \in Calls \ {c} : ~InFlight(d)
           u == getCurrentUrl(workingRpcIndex, currentClientIndex)
       IN  call' = [d \in Calls |->
                      IF d = c
                      THEN [IdleCall EXCEPT !.pc = "inflight", !.op = op,
                                            !.url = u,
                                            !.first = IF alone THEN u ELSE Null]
                      ELSE [call[d] EXCEPT !.first = Null]]
    /\ UNCHANGED <<currentClientIndex, workingRpcIndex>>
    /\ UNCHANGED <<engineVars, mainVars, storeVars, feeVars, apiVars, batchVars>>

\* The request of call c settles with a usable result: markRpcAsWorking(),
\* return. The settled slot keeps the URL that served it and the number of
\* attempts that failed before.
RpcSuccess(c) ==
    /\ InFlight(c)
    /\ LET sel == markRpcAsWorking(workingRpcIndex, currentClientIndex)
       IN  /\ workingRpcIndex' = sel[1]
           /\ currentClientIndex' = sel[2]
    /\ call' = [call EXCEPT ![c].pc = "returned", ![c].result = "result"]
    /\ UNCHANGED <<engineVars, mainVars, storeVars, feeVars, apiVars, batchVars>>

\* The request of call c fails with resp: the catch block rotates, then
\* continues (network code), throws not-found, or falls through to the next
\* loop iteration; the next iteration selects its URL and sends at once, and
\* the loop's end throws the exhausted error.
RpcFailure(c, resp) ==
    /\ InFlight(c)
    /\ resp # "ok"
    /\ LET sel == rotateClient(workingRpcIndex, currentClientIndex)
           nf == ThrowsNotFound(call[c].op, resp)
           more == call[c].attempt + 1 < NumEndpoints
           base == [call[c] EXCEPT !.got404 = (call[c].got404 \/
                                                (resp = "http404" /\
                                                 call[c].op # "getLatestBlockHeight")),
                                   !.rotations = call[c].rotations + 1]
       IN  /\ workingRpcIndex' = sel[1]
           /\ currentClientIndex' = sel[2]
           /\ call' = [call EXCEPT ![c] =
                        IF nf
                        THEN [base EXCEPT !.pc = "thrown", !.result = "notfound",
                                          !.url = Null]
                        ELSE IF more
                        THEN [base EXCEPT !.attempt = call[c].attempt + 1,
                                          !.url = getCurrentUrl(sel[1], sel[2])]
                        ELSE [base EXCEPT !.pc = "thrown", !.result = "exhausted",
                                          !.url = Null]]
    /\ UNCHANGED <<engineVars, mainVars, storeVars, feeVars, apiVars, batchVars>>

\* The caller takes the settled promise; the slot is free for the next call.
RpcConsume(c) ==
    /\ call[c].pc \in {"returned", "thrown"}
    /\ call' = [call EXCEPT ![c] = IdleCall]
    /\ UNCHANGED <<currentClientIndex, workingRpcIndex>>
    /\ UNCHANGED <<engineVars, mainVars, storeVars, feeVars, apiVars, batchVars>>

NextRpc ==
    \/ \E c \in Calls, op \in RpcOps : RpcStartCall(c, op)
    \/ \E c \in Calls : RpcSuccess(c)
    \/ \E c \in Calls, resp \in Responses : RpcFailure(c, resp)
    \/ \E c \in Calls : RpcConsume(c)

\* ------------------------------------- table blocks (db/models.ts, schema)

\* Two chains share the table.
StoreChains == {c \in Chains : c <= 2}

\* What two fetches of a block may give the engine for blocks.timestamp and
\* blocks.total_fees.
Fetched == {<<1700000000, "0">>, <<1700000006, "427uatom">>}

\* BlockData: what insertBlocksBatch is given for one block.
BlockRecords ==
    {[block_number |-> h, chain_id |-> c, timestamp |-> f[1], total_fees |-> f[2]] :
        h \in Heights, c \in StoreChains, f \in Fetched}

\* UNIQUE(block_number, chain_id), the conflict target of the INSERT.
KeyOf(r) == <<r.block_number, r.chain_id>>

StoreKeys == Heights \X StoreChains

\* The BlockData a row holds: the row without updated_at.
RecordOf(row) ==
    [block_number |-> row.block_number, chain_id |-> row.chain_id,
     timestamp |-> row.timestamp, total_fees |-> row.total_fees]

RecordsOf(table) == {RecordOf(row) : row \in table}

RowOf(rec, now) ==
    [block_number |-> rec.block_number, chain_id |-> rec.chain_id,
     timestamp |-> rec.timestamp, total_fees |-> rec.total_fees,
     updated_at |-> now]

\* Mutant: ON CONFLICT (block_number, chain_id) DO NOTHING.
Upsert_doNothing(table, rec, now) ==
    IF \E row \in table : KeyOf(row) = KeyOf(rec)
    THEN table
    ELSE table \cup {RowOf(rec, now)}

\* INSERT INTO blocks ... ON CONFLICT (block_number, chain_id) DO UPDATE SET
\* timestamp, total_fees, updated_at: every row with the key is rewritten;
\* without such a row one is added.
Upsert(table, rec, now) ==
    IF \E row \in table : KeyOf(row) = KeyOf(rec)
    THEN {IF KeyOf(row) = KeyOf(rec) THEN RowOf(rec, now) ELSE row : row \in table}
    ELSE table \cup {RowOf(rec, now)}

\* The INSERTs of one transaction applied in order.
RECURSIVE UpsertAll(_, _, _)
UpsertAll(table, recs, now) ==
    IF recs = <<>> THEN table
    ELSE UpsertAll(Upsert(table, Head(recs), now), Tail(recs), now)

\* The ghost after the INSERTs of a committed transaction.
RECURSIVE LatestAfter(_, _)
LatestAfter(l, recs) ==
    IF recs = <<>> THEN l
    ELSE LatestAfter([l EXCEPT ![KeyOf(Head(recs))] =
                         <<Head(recs).timestamp, Head(recs).total_fees>>],
                     Tail(recs))

InitStore ==
    /\ blocks_table = {}
    /\ store_tx = <<>>
    /\ store_now = 0
    /\ latestCommit = [k \in StoreKeys |-> <<>>]

UnchangedByStore == UNCHANGED <<rpcVars, engineVars, mainVars, feeVars, apiVars, batchVars>>

\* insertBlocksBatch: the next INSERT of the loop runs inside the open
\* transaction (BEGIN before the first). A batch holds blocks of one chain;
\* at most MaxInserts INSERTs run in all.
StoreInsert(rec) ==
    /\ store_now + Len(store_tx) < MaxInserts
    /\ \A i \in 1 .. Len(store_tx) : store_tx[i].chain_id = rec.chain_id
    /\ store_tx' = Append(store_tx, rec)
    /\ UNCHANGED <<blocks_table, store_now, latestCommit>>
    /\ UnchangedByStore

\* COMMIT: the transaction's INSERTs take effect; updated_at is the clock at
\* the commit.
StoreCommit ==
    /\ store_tx # <<>>
    /\ store_now' = store_now + Len(store_tx)
    /\ blocks_table' = UpsertAll(blocks_table, store_tx, store_now')
    /\ latestCommit' = LatestAfter(latestCommit, store_tx)
    /\ store_tx' = <<>>
    /\ UnchangedByStore

\* An INSERT or COMMIT fails: ROLLBACK, nothing of the transaction is kept.
StoreRollback ==
    /\ store_tx # <<>>
    /\ store_tx' = <<>>
    /\ UNCHANGED <<blocks_table, store_now, latestCommit>>
    /\ UnchangedByStore

NextStore ==
    \/ \E rec \in BlockRecords : StoreInsert(rec)
    \/ StoreCommit
    \/ StoreRollback

\* ------------------------------------------- fee extractor (fee-parser.ts)

\* A string whose characters the code inspects is the sequence of its
\* characters. A non-negative integer is the sequence of its decimal digits,
\* the way `${amount}` prints a Number below 1e21 that holds an integer.
DigitChars == <<"0", "1", "2", "3", "4", "5", "6", "7", "8", "9">>

DigitValue(ch) == (CHOOSE i \in 1 .. 10 : DigitChars[i] = ch) - 1

RECURSIVE StripZeros(_)
StripZeros(ds) ==
    IF Len(ds) > 1 /\ Head(ds) = "0" THEN StripZeros(Tail(ds)) ELSE ds

\* a + b, exact
ExactAdd(a, b) ==
    LET n == IF Len(a) >= Len(b) THEN Len(a) ELSE Len(b)
        RECURSIVE PadTo(_)
        PadTo(ds) == IF Len(ds) >= n THEN ds ELSE PadTo(<<"0">> \o ds)
        RECURSIVE AddDigits(_, _, _)
        \* x + y + carry on digit sequences of equal length
        AddDigits(x, y, carry) ==
            IF x = <<>> THEN (IF carry = 0 THEN <<>> ELSE <<DigitChars[carry + 1]>>)
            ELSE LET k == Len(x)
                     t == DigitValue(x[k]) + DigitValue(y[k]) + carry
                 IN  Append(AddDigits(SubSeq(x, 1, k - 1), SubSeq(y, 1, k - 1), t \div 10),
                            DigitChars[(t % 10) + 1])
    IN  StripZeros(AddDigits(PadTo(a), PadTo(b), 0))

\* The Number nearest to the integer v (round half to even), for v < 2^54:
\* a Number holds every integer below 2^53, and the even integers from 2^53
\* up to 2^54.
ToNumber(v) ==
    LET TwoTo53 == <<"9", "0", "0", "7", "1", "9", "9", "2", "5", "4", "7", "4", "0", "9", "9", "2">>
        RECURSIVE DigitsLess(_, _)
        \* x < y on digit sequences of equal length
        DigitsLess(x, y) ==
            /\ x # <<>>
            /\ \/ DigitValue(Head(x)) < DigitValue(Head(y))
               \/ Head(x) = Head(y) /\ DigitsLess(Tail(x), Tail(y))
        below == Len(v) < Len(TwoTo53) \/ (Len(v) = Len(TwoTo53) /\ DigitsLess(v, TwoTo53))
        n == Len(v)
        \* v mod 4, from the last two digits
        mod4 == ((IF n >= 2 THEN DigitValue(v[n - 1]) ELSE 0) * 10 + DigitValue(v[n])) % 4
        RECURSIVE Decrement(_)
        \* x - 1 for x > 0
        Decrement(x) ==
            IF DigitValue(x[Len(x)]) > 0
            THEN [x EXCEPT ![Len(x)] = DigitChars[DigitValue(x[Len(x)])]]
            ELSE Append(Decrement(SubSeq(x, 1, Len(x) - 1)), "9")
    IN  IF below \/ mod4 \in {0, 2} THEN v
        ELSE IF mod4 = 1 THEN StripZeros(Decrement(v))
        ELSE ExactAdd(v, <<"1">>)

\* parseFloat(numericPart) for a numericPart of digits
parseFloat(numericPart) == ToNumber(StripZeros(numericPart))

\* currentAmount + amount on Numbers
NumberAdd(a, b) == ToNumber(ExactAdd(a, b))

RECURSIVE SplitComma(_)
\* value.split(',')
SplitComma(str) ==
    IF \A i \in 1 .. Len(str) : str[i] # ","
    THEN <<str>>
    ELSE LET k == CHOOSE i \in 1 .. Len(str) :
                      str[i] = "," /\ \A j \in 1 .. (i - 1) : str[j] # ","
         IN  <<SubSeq(str, 1, k - 1)>> \o SplitComma(SubSeq(str, k + 1, Len(str)))

RECURSIVE Trim(_)
\* v.trim()
Trim(str) ==
    IF str # <<>> /\ Head(str) = " " THEN Trim(Tail(str))
    ELSE IF str # <<>> /\ str[Len(str)] = " " THEN Trim(SubSeq(str, 1, Len(str) - 1))
    ELSE str

RECURSIVE LeadingDigits(_)
\* Length of the longest prefix of digits.
LeadingDigits(str) ==
    IF str # <<>> /\ (\E i \in 1 .. 10 : DigitChars[i] = Head(str))
    THEN 1 + LeadingDigits(Tail(str)) ELSE 0

\* amountStr.match(/^(\d+(?:\.\d+)?)(.+)$/): <<match[1], match[2]>>, or <<>>
\* without a match. The groups are greedy and give back characters until the
\* last group has one: a fraction that ends the string loses its last digit
\* to the denom (or, with one digit, is left to the denom whole), and digits
\* that end the string lose their last digit to the denom.
Match(str) ==
    LET n == LeadingDigits(str)
        after == SubSeq(str, n + 1, Len(str))
        m == IF after # <<>> /\ Head(after) = "." THEN LeadingDigits(Tail(after)) ELSE 0
    IN  IF n = 0 THEN <<>>
        ELSE IF m >= 1 /\ n + 1 + m < Len(str)
        THEN <<SubSeq(str, 1, n + 1 + m), SubSeq(str, n + 2 + m, Len(str))>>
        ELSE IF m >= 2
        THEN <<SubSeq(str, 1, n + m), SubSeq(str, n + 1 + m, Len(str))>>
        ELSE IF after # <<>>
        THEN <<SubSeq(str, 1, n), after>>
        ELSE IF n >= 2
        THEN <<SubSeq(str, 1, n - 1), SubSeq(str, n, n)>>
        ELSE <<>>

\* parseFeeValue(value, feesByDenom). The Map is the sequence of its entries
\* <<denom, amount>> in insertion order.
parseFeeValue(value, feesMap) ==
    LET Get(map, denom) ==
            IF \E i \in 1 .. Len(map) : map[i][1] = denom
            THEN map[CHOOSE i \in 1 .. Len(map) : map[i][1] = denom][2]
            ELSE <<"0">>
        Set(map, denom, amount) ==
            IF \E i \in 1 .. Len(map) : map[i][1] = denom
            THEN [i \in 1 .. Len(map) |->
                    IF map[i][1] = denom THEN <<denom, amount>> ELSE map[i]]
            ELSE Append(map, <<denom, amount>>)
        \* one amountStr of the loop
        ParseAmount(map, amountStr) ==
            LET match == Match(amountStr)
            IN  IF match = <<>> THEN map
                ELSE LET amount == parseFloat(match[1])
                     IN  IF amount # <<"0">>
                         THEN Set(map, match[2], NumberAdd(Get(map, match[2]), amount))
                         ELSE map
        RECURSIVE ParseAmounts(_, _)
        ParseAmounts(map, amounts) ==
            IF amounts = <<>> THEN map
            ELSE ParseAmounts(ParseAmount(map, Trim(Head(amounts))), Tail(amounts))
    IN  IF value = <<>> THEN feesMap ELSE ParseAmounts(feesMap, SplitComma(value))

\* The Map extractFeesFromBlock has built when its loops are done: failed
\* transactions are skipped, and of the others the attributes keyed 'fee' or
\* 'tip' are parsed. Every entry is above 0, since only amounts above 0 are
\* added.
feesByDenom(txs_results) ==
    LET RECURSIVE ParseAttributes(_, _)
        ParseAttributes(map, attrs) ==
            IF attrs = <<>> THEN map
            ELSE ParseAttributes(
                    IF Head(attrs).key = "fee" \/ Head(attrs).key = "tip"
                    THEN parseFeeValue(Head(attrs).value, map) ELSE map,
                    Tail(attrs))
        RECURSIVE ParseTxs(_, _)
        ParseTxs(map, txs) ==
            IF txs = <<>> THEN map
            ELSE ParseTxs(IF Head(txs).code # 0 THEN map
                          ELSE ParseAttributes(map, Head(txs).attributes),
                          Tail(txs))
    IN  ParseTxs(<<>>, txs_results)

\* extractFeesFromBlock(blockResult)
extractFeesFromBlock(br) ==
    LET RECURSIVE JoinFees(_)
        \* feeStrings.join(',') of the `${amount}${denom}` of the entries
        JoinFees(map) ==
            IF Len(map) = 1 THEN map[1][2] \o map[1][1]
            ELSE map[1][2] \o map[1][1] \o <<",">> \o JoinFees(Tail(map))
    IN  IF ~br.has_txs_results \/ Len(br.txs_results) = 0 THEN <<"0">>
        ELSE IF feesByDenom(br.txs_results) = <<>> THEN <<"0">>
        ELSE JoinFees(feesByDenom(br.txs_results))

\* Attribute values of the block results drawn.
AttrValues ==
    { <<"1", "0", "0", "0", "u", "a", "t", "o", "m", ",", "5", "0", "0", "u", "a", "t", "o", "m">>,
      <<"2", "0", "0", "u", "a", "t", "o", "m">>,
      <<"4", "2", "7", "u", "a", "t", "o", "m", ",", " ", "1", "9", "8", "u", "o", "s", "m", "o">>,
      <<"0", "u", "a", "t", "o", "m">>,
      <<"u", "a", "t", "o", "m">>,
      <<"9", "0", "0", "7", "1", "9", "9", "2", "5", "4", "7", "4", "0", "9", "9", "3", "a", "e", "v", "m", "o", "s">>,
      <<"1", "a", "e", "v", "m", "o", "s">>,
      <<"1", "2", "3">>,
      <<"1", ".", "5">>,
      <<>> }

\* A block result without txs_results, or with up to MaxTxs results, each
\* with one event of one attribute: a succeeded transaction with a fee, or
\* one that failed, or one with an attribute under another key.
BlockResults ==
    LET Paid == <<"2", "0", "0", "u", "a", "t", "o", "m">>
        TxResults ==
            {[code |-> 0, attributes |-> <<[key |-> "fee", value |-> v]>>] : v \in AttrValues}
                \cup {[code |-> 11, attributes |-> <<[key |-> "fee", value |-> Paid]>>]}
                \cup {[code |-> 0, attributes |-> <<[key |-> k, value |-> Paid]>>] :
                        k \in {"tip", "fees", "spender"}}
        RECURSIVE SeqsUpTo(_)
        SeqsUpTo(n) ==
            IF n = 0 THEN {<<>>}
            ELSE SeqsUpTo(n - 1) \cup {Append(q, x) : q \in SeqsUpTo(n - 1), x \in TxResults}
    IN  {[has_txs_results |-> FALSE, txs_results |-> <<>>]}
            \cup {[has_txs_results |-> TRUE, txs_results |-> txs] : txs \in SeqsUpTo(MaxTxs)}

InitFees ==
    /\ blockResult = [has_txs_results |-> FALSE, txs_results |-> <<>>]
    /\ total_fees = <<>>

\* processBlock: const totalFees = extractFeesFromBlock(blockResults), for
\* one block result drawn.
ExtractFees(br) ==
    /\ total_fees = <<>>
    /\ blockResult' = br
    /\ total_fees' = extractFeesFromBlock(br)
    /\ UNCHANGED <<rpcVars, engineVars, mainVars, storeVars, apiVars, batchVars>>

NextFees == \E br \in BlockResults : ExtractFees(br)

\* ------------------------------------------------ /fees (api/server.ts)

\* Object.keys(this.config.chains), in the order of the configuration file.
ConfiguredChains == <<"cosmoshub-4", "osmosis-1">>

\* this.config.chains[key] is truthy: key is a configured chain, or a
\* property every plain object answers to beside its own keys.
ChainLookup(key) ==
    \/ \E i \in 1 .. Len(ConfiguredChains) : ConfiguredChains[i] = key
    \/ key \in {"constructor"}

\* req.query of the requests drawn. A parameter: whether the request has it,
\* and its text.
Queries ==
    LET BoundParams ==
            {[given |-> FALSE, text |-> <<>>]}
                \cup {[given |-> TRUE, text |-> t] :
                        t \in { <<>>, <<"5">>, <<"9">>, <<"1", "2", "a", "b", "c">>, <<"a", "b", "c">> }}
        ChainParams ==
            {[given |-> FALSE, text |-> ""]}
                \cup {[given |-> TRUE, text |-> t] :
                        t \in {"cosmoshub-4", "osmosis-1", "juno-1", "constructor"}}
    IN  [startTime : BoundParams, endTime : BoundParams,
         startHeight : BoundParams, endHeight : BoundParams, chainId : ChainParams]

\* A parameter in a condition: undefined and '' are falsy.
Truthy(param) == param.given /\ Len(param.text) > 0

\* parseInt(text, 10): blanks are skipped, then a sign and the longest run
\* of digits are read, and whatever follows is ignored; NaN without a digit.
parseInt(text) ==
    LET t == Trim(text)
        negative == t # <<>> /\ Head(t) = "-"
        body == IF t # <<>> /\ Head(t) \in {"-", "+"} THEN Tail(t) ELSE t
        n == LeadingDigits(body)
        RECURSIVE DigitsToInt(_)
        DigitsToInt(ds) ==
            IF ds = <<>> THEN 0
            ELSE DigitsToInt(SubSeq(ds, 1, Len(ds) - 1)) * 10 + DigitValue(ds[Len(ds)])
    IN  IF n = 0 THEN [nan |-> TRUE, value |-> 0]
        ELSE [nan |-> FALSE,
              value |-> IF negative THEN 0 - DigitsToInt(SubSeq(body, 1, n))
                        ELSE DigitsToInt(SubSeq(body, 1, n))]

NoQuery == [kind |-> "none", chainId |-> "", start |-> 0, end |-> 0]

\* The /fees handler up to its await: the status sent (0 if none yet) and
\* the query made to the block model.
FeesHandler(q) ==
    LET hasTimeRange == Truthy(q.startTime) /\ Truthy(q.endTime)
        hasBlockRange == Truthy(q.startHeight) /\ Truthy(q.endHeight)
        targetChainId == IF q.chainId.given /\ q.chainId.text # ""
                         THEN q.chainId.text
                         ELSE IF Len(ConfiguredChains) > 0 THEN ConfiguredChains[1]
                         ELSE ""
        BadRequest == [status |-> 400, query |-> NoQuery]
        \* the branch of one range: parse, check, and call the block model
        RangeBranch(kind, startText, endText) ==
            LET start == parseInt(startText)
                end == parseInt(endText)
            IN  IF start.nan \/ end.nan THEN BadRequest
                ELSE IF start.value > end.value THEN BadRequest
                ELSE [status |-> 0,
                      query |-> [kind |-> kind, chainId |-> targetChainId,
                                 start |-> start.value, end |-> end.value]]
    IN  IF ~hasTimeRange /\ ~hasBlockRange THEN BadRequest
        ELSE IF hasTimeRange /\ hasBlockRange THEN BadRequest
        ELSE IF targetChainId = "" \/ ~ChainLookup(targetChainId) THEN BadRequest
        ELSE IF hasTimeRange
        THEN RangeBranch("time", q.startTime.text, q.endTime.text)
        ELSE RangeBranch("block", q.startHeight.text, q.endHeight.text)

InitApi ==
    /\ apiPc = "idle"
    /\ req_query = [startTime |-> [given |-> FALSE, text |-> <<>>],
                    endTime |-> [given |-> FALSE, text |-> <<>>],
                    startHeight |-> [given |-> FALSE, text |-> <<>>],
                    endHeight |-> [given |-> FALSE, text |-> <<>>],
                    chainId |-> [given |-> FALSE, text |-> ""]]
    /\ res_status = 0
    /\ storage_query = NoQuery

\* GET /fees arrives and runs to its response or to its await.
GetFees(q) ==
    /\ apiPc = "idle"
    /\ req_query' = q
    /\ res_status' = FeesHandler(q).status
    /\ storage_query' = FeesHandler(q).query
    /\ apiPc' = IF FeesHandler(q).query.kind = "none" THEN "done" ELSE "awaiting"
    /\ UNCHANGED <<rpcVars, engineVars, mainVars, storeVars, feeVars, batchVars>>

\* The block model's query settles: res.json({chainId, fees}) if it
\* resolved, the catch's 500 if it rejected.
FeesQuerySettles(status) ==
    /\ apiPc = "awaiting"
    /\ res_status' = status
    /\ apiPc' = "done"
    /\ UNCHANGED <<req_query, storage_query>>
    /\ UNCHANGED <<rpcVars, engineVars, mainVars, storeVars, feeVars, batchVars>>

NextApi ==
    \/ \E q \in Queries : GetFees(q)
    \/ FeesQuerySettles(200)
    \/ FeesQuerySettles(500)

\* ------------------------------------------------------ main (index.ts)

\* main() awaits the database health check; no engine exists yet.
InitMain ==
    /\ engine = [c \in Chains |-> "none"]
    /\ mainPc = "healthCheck"
    /\ exitCode = Null

UnchangedByMain == UNCHANGED <<rpcVars, storeVars, feeVars, apiVars, batchVars, isRunning, shouldStop, pc, lastHeight,
                               currentHeight, latestHeight, batchStart, batchEnd,
                               height, tasks, blocks, txi, tx_rows, db_blocks,
                               db_cursor, storedEnd, prevEnd, firstFetched, loops,
                               startIgnored, startResult>>

\* process.exit(code): every engine that has not settled ends with the
\* process.
ProcessExit(code) ==
    /\ exitCode' = code
    /\ mainPc' = "exited"
    /\ engine' = [c \in Chains |->
                    IF engine[c] \in {"getLastIndexedHeight", "indexing"}
                    THEN "killed" ELSE engine[c]]

\* The health check passed: one engine per chain is constructed, the signal
\* handlers are registered, and Promise.all(indexers.map(start)) calls every
\* start(), each of which runs up to its cursor read.
MainStartsIndexers ==
    /\ mainPc = "healthCheck"
    /\ engine' = [c \in Chains |-> "getLastIndexedHeight"]
    /\ mainPc' = "awaitAll"
    /\ UNCHANGED exitCode
    /\ UnchangedByMain

\* The health check failed or threw: main's catch block, process.exit(1).
MainHealthCheckFails ==
    /\ mainPc = "healthCheck"
    /\ ProcessExit(1)
    /\ UnchangedByMain

\* The cursor read of chain c's engine returns: the engine is in its loop.
IndexerCursorRead(c) ==
    /\ exitCode = Null
    /\ engine[c] = "getLastIndexedHeight"
    /\ engine' = [engine EXCEPT ![c] = "indexing"]
    /\ UNCHANGED <<mainPc, exitCode>>
    /\ UnchangedByMain

\* The cursor read of chain c's engine throws: indexBlocks throws, start()
\* logs and rethrows, the promise of start() rejects.
IndexerRejects(c) ==
    /\ exitCode = Null
    /\ engine[c] = "getLastIndexedHeight"
    /\ engine' = [engine EXCEPT ![c] = "rejected"]
    /\ UNCHANGED <<mainPc, exitCode>>
    /\ UnchangedByMain

\* Chain c's engine, asked to stop by the shutdown handler, leaves its loop:
\* the promise of start() resolves.
IndexerResolves(c) ==
    /\ exitCode = Null
    /\ mainPc = "closing"
    /\ engine[c] = "indexing"
    /\ engine' = [engine EXCEPT ![c] = "resolved"]
    /\ UNCHANGED <<mainPc, exitCode>>
    /\ UnchangedByMain

\* A rejected start() rejects Promise.all at once; main's catch block logs
\* 'Fatal error in main' and calls process.exit(1).
MainCatch ==
    /\ mainPc \in {"awaitAll", "closing"}
    /\ \E c \in Chains : engine[c] = "rejected"
    /\ ProcessExit(1)
    /\ UnchangedByMain

\* SIGINT / SIGTERM: the shutdown handler calls stop() on every engine and
\* awaits db.close().
MainSignal ==
    /\ mainPc = "awaitAll"
    /\ mainPc' = "closing"
    /\ UNCHANGED <<engine, exitCode>>
    /\ UnchangedByMain

\* db.close() returned: process.exit(0).
MainShutdownExit ==
    /\ mainPc = "closing"
    /\ ProcessExit(0)
    /\ UnchangedByMain

NextMain ==
    \/ MainStartsIndexers
    \/ MainHealthCheckFails
    \/ \E c \in Chains : IndexerCursorRead(c)
    \/ \E c \in Chains : IndexerRejects(c)
    \/ \E c \in Chains : IndexerResolves(c)
    \/ MainCatch
    \/ MainSignal
    \/ MainShutdownExit

\* ------------------------------------------------------ specifications

\* ------------------------- processBatch and processBlock, fetch by fetch

\* const retryDelay = this.chainConfig.retry_delay_ms || 1000
retryDelay == IF RetryDelayMsCfg # 0 THEN RetryDelayMsCfg ELSE 1000

\* const retryAttempts = this.chainConfig.retry_attempts || 3, for the
\* configured value cfg
RetryAttemptsOf(cfg) == IF cfg # 0 THEN cfg ELSE 3

\* Mutant: the delay is computed from the attempts that remain to be made.
BackoffDelay_remaining(delay, attempts, attempt) == delay * (attempts - 1 - attempt)

\* await this.sleep(retryDelay * (attempt + 1))
BackoffDelay(delay, attempts, attempt) == delay * (attempt + 1)

\* What a fetch (getBlockResults, getBlock) of height h ends with when the
\* window ends at endH: the endpoints have the MaxRetained highest heights
\* only.
FetchResults(h, endH) ==
    IF h <= endH - MaxRetained THEN {"notFound"} ELSE {"ok", "notFound", "error"}

\* Mutant: the failure of the fetch that settles last is thrown.
AttemptOutcome_lastFailure(first, second) == IF second # "ok" THEN second ELSE first

\* await Promise.all([getBlockResults(height), getBlock(height)]) for the
\* results of the fetch that settles first and of the one that settles
\* second: the failure of the first to fail is thrown, and both results are
\* there when both succeed.
AttemptOutcome(first, second) == IF first # "ok" THEN first ELSE second

\* processBlock at the await of an attempt's two fetches.
Fetching(attempt) == [attempt |-> attempt, st |-> "fetching", delay |-> 0, nf |-> "no"]

\* The pending calls without the one for height h.
Without(h) == [x \in DOMAIN batchPromises \ {h} |-> batchPromises[x]]

\* The ghost pbSettled with the outcome of height h added.
Settle(h, outcome) ==
    [x \in DOMAIN pbSettled \cup {h} |-> IF x = h THEN outcome ELSE pbSettled[x]]

InitBatch ==
    /\ pbPc = "idle"
    /\ startHeight = Null
    /\ endHeight = Null
    /\ pbRetryAttempts = Null
    /\ pbRetryDelay = Null
    /\ pbShouldStop = FALSE
    /\ pbHeight = Null
    /\ batchPromises = <<>>
    /\ pbBlocks = <<>>
    /\ pbSettled = <<>>

UnchangedByBatch == UNCHANGED <<rpcVars, engineVars, mainVars, storeVars, feeVars, apiVars>>

\* indexBlocks calls processBatch(batchStart, batchEnd, retryAttempts,
\* retryDelay) under a configuration whose retry_attempts is cfg.
ProcessBatch(startH, endH, cfg) ==
    /\ pbPc = "idle"
    /\ startHeight' = startH
    /\ endHeight' = endH
    /\ pbRetryAttempts' = RetryAttemptsOf(cfg)
    /\ pbRetryDelay' = retryDelay
    /\ pbHeight' = startH
    /\ pbPc' = "dispatch"
    /\ UNCHANGED <<pbShouldStop, batchPromises, pbBlocks, pbSettled>>
    /\ UnchangedByBatch

\* stop() is called while processBatch runs.
StopRequested ==
    /\ pbPc \in {"dispatch", "await"}
    /\ ~pbShouldStop
    /\ pbShouldStop' = TRUE
    /\ UNCHANGED <<pbPc, startHeight, endHeight, pbRetryAttempts, pbRetryDelay,
                   pbHeight, batchPromises, pbBlocks, pbSettled>>
    /\ UnchangedByBatch

\* The inner loop: processBlock is called for the heights of the chunk, and
\* each call runs to the await of its first attempt.
PushChunk ==
    /\ pbPc = "dispatch"
    /\ pbHeight <= endHeight
    /\ batchPromises' = [x \in ChunkHeights(pbHeight, endHeight, pbShouldStop) |->
                            Fetching(0)]
    /\ pbPc' = "await"
    /\ UNCHANGED <<startHeight, endHeight, pbRetryAttempts, pbRetryDelay,
                   pbShouldStop, pbHeight, pbBlocks, pbSettled>>
    /\ UnchangedByBatch

\* processBlock(h): the attempt's two fetches ended with first and second, in
\* that order. Both returned: the record is returned and pushed. The attempt
\* threw not-found: null is returned. It threw another error: sleep and
\* retry, or throw after the last attempt (processBatch logs it).
AttemptSettles(h, first, second) ==
    /\ pbPc = "await"
    /\ h \in DOMAIN batchPromises
    /\ batchPromises[h].st = "fetching"
    /\ LET attempt == batchPromises[h].attempt
           outcome == AttemptOutcome(first, second)
           sawNotFound == IF first = "notFound" THEN "first"
                          ELSE IF first = "error" /\ second = "notFound" THEN "later"
                          ELSE "no"
       IN  \/ /\ outcome = "ok"
              /\ pbBlocks' = Append(pbBlocks, h)
              /\ batchPromises' = Without(h)
              /\ pbSettled' = Settle(h, "record")
           \/ /\ outcome = "notFound"
              /\ batchPromises' = Without(h)
              /\ pbSettled' = Settle(h, "noRecord")
              /\ UNCHANGED pbBlocks
           \/ /\ outcome = "error"
              /\ attempt < pbRetryAttempts - 1
              /\ batchPromises' =
                    [batchPromises EXCEPT ![h] =
                        [attempt |-> attempt, st |-> "backoff",
                         delay |-> BackoffDelay(pbRetryDelay, pbRetryAttempts, attempt),
                         nf |-> sawNotFound]]
              /\ UNCHANGED <<pbBlocks, pbSettled>>
           \/ /\ outcome = "error"
              /\ ~(attempt < pbRetryAttempts - 1)
              /\ batchPromises' = Without(h)
              /\ pbSettled' = Settle(h, "failed")
              /\ UNCHANGED pbBlocks
    /\ UNCHANGED <<pbPc, startHeight, endHeight, pbRetryAttempts, pbRetryDelay,
                   pbShouldStop, pbHeight>>
    /\ UnchangedByBatch

\* processBlock(h): the sleep is over, the next attempt starts.
RetrySleepElapsed(h) ==
    /\ pbPc = "await"
    /\ h \in DOMAIN batchPromises
    /\ batchPromises[h].st = "backoff"
    /\ batchPromises' = [batchPromises EXCEPT ![h] = Fetching(batchPromises[h].attempt + 1)]
    /\ UNCHANGED <<pbPc, startHeight, endHeight, pbRetryAttempts, pbRetryDelay,
                   pbShouldStop, pbHeight, pbBlocks, pbSettled>>
    /\ UnchangedByBatch

\* await Promise.all(batchPromises) resolves; height += concurrency.
PromiseAllResolves ==
    /\ pbPc = "await"
    /\ AllSettled(batchPromises)
    /\ pbHeight' = pbHeight + Concurrency
    /\ pbPc' = "dispatch"
    /\ UNCHANGED <<startHeight, endHeight, pbRetryAttempts, pbRetryDelay,
                   pbShouldStop, batchPromises, pbBlocks, pbSettled>>
    /\ UnchangedByBatch

\* The outer loop is over: blocks.sort(...); return blocks.
SortAndReturn ==
    /\ pbPc = "dispatch"
    /\ pbHeight > endHeight
    /\ pbBlocks' = SortBlocks(pbBlocks)
    /\ pbPc' = "returned"
    /\ UNCHANGED <<startHeight, endHeight, pbRetryAttempts, pbRetryDelay,
                   pbShouldStop, pbHeight, batchPromises, pbSettled>>
    /\ UnchangedByBatch

\* indexBlocks after processBatch has returned a batch that is not empty:
\* insertBlocksBatch(blocks) and updateIndexingState(chainId, batchEnd)
\* return.
BatchStored ==
    /\ pbPc = "returned"
    /\ Len(pbBlocks) > 0
    /\ db_blocks' = db_blocks \cup Range(pbBlocks)
    /\ db_cursor' = endHeight
    /\ storedEnd' = endHeight
    /\ pbPc' = "stored"
    /\ UNCHANGED <<startHeight, endHeight, pbRetryAttempts, pbRetryDelay,
                   pbShouldStop, pbHeight, batchPromises, pbBlocks, pbSettled>>
    /\ UNCHANGED <<isRunning, shouldStop, pc, lastHeight, currentHeight, latestHeight,
                   batchStart, batchEnd, height, tasks, blocks, txi, tx_rows,
                   prevEnd, firstFetched, loops, startIgnored, startResult>>
    /\ UNCHANGED <<rpcVars, mainVars, storeVars, feeVars, apiVars>>

\* The windows processBatch is called with end at these heights: windows of
\* at most MaxRetained + 1 heights, and windows of more than one chunk.
WindowEnds ==
    {endH \in StartHeight .. MaxWindow :
        endH <= StartHeight + MaxRetained \/ endH >= StartHeight + Concurrency}

NextBatch ==
    \/ \E endH \in WindowEnds, cfg \in 0 .. MaxRetryCfg :
            ProcessBatch(StartHeight, endH, cfg)
    \/ StopRequested
    \/ PushChunk
    \/ \E h \in StartHeight .. MaxWindow :
            \E first, second \in FetchResults(h, endHeight) :
                AttemptSettles(h, first, second)
    \/ \E h \in StartHeight .. MaxWindow : RetrySleepElapsed(h)
    \/ PromiseAllResolves
    \/ SortAndReturn
    \/ BatchStored

Init == InitRpc /\ InitEngine /\ InitMain /\ InitStore /\ InitFees /\ InitApi /\ InitBatch

\* The indexing engine of one chain against storage.
Spec == Init /\ [][Next]_vars

\* A step of the running engine: an awaited RPC call, storage call or sleep
\* returns or throws, or the code between two awaits runs.
EngineStep ==
    \/ GetLastIndexedHeightReturns
    \/ GetLastIndexedHeightFails
    \/ LoopCheck
    \/ \E h \in Heads : GetLatestBlockHeightReturns(h)
    \/ GetLatestBlockHeightFails
    \/ SleepElapsed
    \/ DispatchChunk
    \/ \E h \in Heights : AttemptSucceeds(h)
    \/ \E h \in Heights : AttemptNotFound(h)
    \/ \E h \in Heights : AttemptFails(h)
    \/ \E h \in Heights : BackoffElapsed(h)
    \/ ChunkSettled
    \/ BatchReturns
    \/ TxInsertRow
    \/ TxCommit
    \/ TxFails
    \/ UpdateIndexingStateReturns
    \/ UpdateIndexingStateFails
    \/ GetBlockCountReturns
    \/ GetBlockCountFails

\* The engine where every pending RPC call, storage call and sleep settles
\* in the end: the event loop runs a continuation that is ready.
SpecFair == Spec /\ WF_vars(EngineStep)

\* A step in which an RPC call or a storage call of the engine rejects, or
\* a block fetch reports that the height does not exist.
CallFails ==
    \/ GetLastIndexedHeightFails
    \/ GetLatestBlockHeightFails
    \/ \E h \in Heights : AttemptNotFound(h)
    \/ \E h \in Heights : AttemptFails(h)
    \/ TxFails
    \/ UpdateIndexingStateFails
    \/ GetBlockCountFails

\* The steps of one run of the engine while the chain head stays at MaxHead.
LiveStep ==
    \/ GetLastIndexedHeightReturns
    \/ GetLastIndexedHeightFails
    \/ LoopCheck
    \/ GetLatestBlockHeightReturns(MaxHead)
    \/ GetLatestBlockHeightFails
    \/ SleepElapsed
    \/ DispatchChunk
    \/ \E h \in Heights : AttemptSucceeds(h)
    \/ \E h \in Heights : AttemptNotFound(h)
    \/ \E h \in Heights : AttemptFails(h)
    \/ \E h \in Heights : BackoffElapsed(h)
    \/ ChunkSettled
    \/ BatchReturns
    \/ TxInsertRow
    \/ TxCommit
    \/ TxFails
    \/ UpdateIndexingStateReturns
    \/ UpdateIndexingStateFails
    \/ GetBlockCountReturns
    \/ GetBlockCountFails

NextLive ==
    \/ Start
    \/ LiveStep

\* The engine started once and never stopped, the chain head staying at
\* MaxHead; every pending RPC call, storage call and sleep settles in the
\* end.
SpecLive == Init /\ [][NextLive]_vars /\ WF_vars(LiveStep)

\* One RPC client with up to NumCalls calls in flight.
SpecRpc == Init /\ [][NextRpc]_vars

\* Table blocks under a sequence of insertBlocksBatch transactions.
SpecStore == Init /\ [][NextStore]_vars

\* extractFeesFromBlock applied to block results.
SpecFees == Init /\ [][NextFees]_vars

\* GET /fees requests.
SpecApi == Init /\ [][NextApi]_vars

\* main(): the engines of all chains under one Promise.all.
SpecMain == Init /\ [][NextMain]_vars

\* One call of processBatch, with its processBlock calls settling in any
\* order and stop() arriving at any time.
SpecBatch == Init /\ [][NextBatch]_vars

\* An endpoint that answers every request with a usable result; the other
\* endpoints answer as they like.
HealthyEndpoint == NumEndpoints - 1

\* A request fails only on an endpoint other than the healthy one.
RpcFailureElsewhere(c, resp) ==
    /\ call[c].url # HealthyEndpoint
    /\ RpcFailure(c, resp)

NextRpcHealthy ==
    \/ \E c \in Calls, op \in RpcOps : RpcStartCall(c, op)
    \/ \E c \in Calls : RpcSuccess(c)
    \/ \E c \in Calls, resp \in Responses : RpcFailureElsewhere(c, resp)
    \/ \E c \in Calls : RpcConsume(c)

\* One RPC client whose last endpoint always succeeds.
SpecRpcHealthy == Init /\ [][NextRpcHealthy]_vars

\* ------------------------------------------------------ claims, engine

\* The engine is inside a window: between the head query that opened it and
\* the step that ends it.
InWindow ==
    pc \in {"dispatch", "awaitChunk", "insertBlocksBatch", "updateIndexingState",
            "getBlockCount"}

\* C1: rows and cursor take effect together: outside the moment in which the
\* cursor update is in flight, the cursor equals the upper bound of the
\* latest window whose rows are durably stored (both absent, or both there).
C1_RowsAndCursorTogether ==
    pc # "updateIndexingState" => db_cursor = storedEnd

\* C2: the persisted last_indexed_height never decreases.
C2_CursorNeverDecreases ==
    [][db_cursor # Null => (db_cursor' # Null /\ db_cursor' >= db_cursor)]_vars

C4_CommitsAreContiguous ==
    [][(pc = "updateIndexingState" /\ pc' = "getBlockCount") =>
          /\ db_cursor' = batchEnd
          /\ batchStart = IF db_cursor = Null THEN StartHeight ELSE db_cursor + 1]_vars

C6_CursorAfterEveryWindow ==
    [][(pc \in {"dispatch", "getBlockCount"} /\ pc' = "loop") =>
          db_cursor' = batchEnd]_vars

\* ------------------------------------------------- claims, RPC client

\* C7: a call that ran with no other call in flight and returned after k
\* failed attempts (k < N, none of them a not-found) made exactly k
\* rotations, was served by the k-th endpoint after the one it tried first
\* (so no failed endpoint was tried twice), leaves the sticky pointer pinned
\* to the endpoint that served it, and the next call's first request goes to
\* that endpoint.
C7_FailoverPinsServingEndpoint ==
    \A c \in Calls :
        (call[c].pc = "returned" /\ call[c].first # Null) =>
            /\ call[c].attempt < NumEndpoints
            /\ call[c].rotations = call[c].attempt
            /\ call[c].url = (call[c].first + call[c].attempt) % NumEndpoints
            /\ workingRpcIndex = call[c].url
            /\ getCurrentUrl(workingRpcIndex, currentClientIndex) = call[c].url

\* C7 witness: a call alone on the client returned after at least one failed
\* endpoint and the sticky pointer is pinned to the endpoint that served it.
C7_Witness ==
    \E c \in Calls :
        /\ call[c].pc = "returned"
        /\ call[c].first # Null
        /\ call[c].attempt >= 1
        /\ call[c].url # call[c].first
        /\ workingRpcIndex = call[c].url

\* C8: a getBlockResults / getBlock call that was answered HTTP 404 has
\* failed with not-found in that very step: it is never in flight again, so
\* no request follows the 404 on any endpoint.
C8_NotFoundFailsAtOnce ==
    \A c \in Calls :
        call[c].got404 => (call[c].pc = "thrown" /\ call[c].result = "notfound")

\* C8 witness: a call failed with not-found on its first attempt, with
\* untried endpoints remaining.
C8_Witness ==
    \E c \in Calls :
        /\ call[c].got404
        /\ call[c].pc = "thrown"
        /\ call[c].result = "notfound"
        /\ call[c].attempt + 1 < NumEndpoints

\* C9: the step in which a call fails with not-found leaves the sticky
\* pointer and the round-robin pointer as they were.
C9_NotFoundDoesNotRotate ==
    [][\A c \in Calls :
          (call[c].pc = "inflight" /\ call'[c].pc = "thrown"
                                   /\ call'[c].result = "notfound")
          => (workingRpcIndex' = workingRpcIndex
              /\ currentClientIndex' = currentClientIndex)]_vars

\* C10: in the step in which a call succeeds, the sticky pointer ends pinned
\* to the endpoint that served the call.
C10_SuccessPinsServingEndpoint ==
    [][\A c \in Calls :
          (call[c].pc = "inflight" /\ call'[c].pc = "returned")
          => workingRpcIndex' = call[c].url]_vars

\* C11: with an endpoint that always succeeds, no call fails as exhausted:
\* a call that made its N attempts without success would have to have tried
\* every endpoint, the healthy one included.
C11_NoExhaustionWithHealthyEndpoint ==
    \A c \in Calls : call[c].result # "exhausted"

C14_StartWhileRunningIsNoOp ==
    /\ [](loops \in {0, 1} /\ (isRunning <=> loops = 1)
                           /\ (isRunning <=> pc # "idle"))
    /\ [][(startIgnored' /\ ~startIgnored) =>
            /\ isRunning /\ isRunning'
            /\ shouldStop' = shouldStop
            /\ loops' = loops
            /\ pc' = pc
            /\ UNCHANGED <<lastHeight, currentHeight, latestHeight, batchStart,
                           batchEnd, height, tasks, blocks, txi, tx_rows,
                           db_blocks, db_cursor>>]_vars
    /\ [][(isRunning /\ shouldStop /\ isRunning') => shouldStop']_vars

\* C14 witness: start() was called, and returned early, on an engine that had
\* been asked to stop and is still awaiting fetches; the stop is still in
\* effect.
C14_Witness ==
    /\ startIgnored
    /\ isRunning
    /\ shouldStop
    /\ loops = 1
    /\ DOMAIN tasks # {}

\* C15 as stated: once stop() was called on a running engine, no window is
\* started.
C15_NoWindowAfterStop ==
    [][(isRunning /\ shouldStop) => ~(~InWindow /\ InWindow')]_vars

\* C15 amended: once stop() was called on a running engine, no fetch is
\* dispatched and no head query is issued; a window is opened only by the
\* head query that was in flight when stop() was called, and the engine
\* leaves the loop at its next loop test. A fetch in flight is not
\* cancelled: it leaves only by settling its attempt (result, not-found, or
\* failure of the last attempt), a failed earlier attempt backs off and
\* retries, and the chunk is awaited until every fetch has settled.
C15_StopIsCooperative ==
    /\ [][(isRunning /\ shouldStop /\ isRunning') =>
            /\ DOMAIN tasks' \subseteq DOMAIN tasks
            /\ (pc' = "getLatestBlockHeight" => pc = "getLatestBlockHeight")
            /\ (~InWindow /\ InWindow') => pc = "getLatestBlockHeight"
            /\ pc = "loop" => pc' = "loop"]_vars
    /\ [][isRunning' =>
            /\ \A h \in DOMAIN tasks \ DOMAIN tasks' : tasks[h].st = "fetching"
            /\ \A h \in DOMAIN tasks \cap DOMAIN tasks' :
                  \/ tasks'[h] = tasks[h]
                  \/ tasks[h].st = "fetching" /\ tasks'[h].st = "backoff"
                                              /\ tasks'[h].attempt = tasks[h].attempt
                  \/ tasks[h].st = "backoff" /\ tasks'[h].st = "fetching"
                                             /\ tasks'[h].attempt = tasks[h].attempt + 1
            /\ (pc = "awaitChunk" /\ pc' # "awaitChunk") => DOMAIN tasks = {}]_vars

\* C15 witness: stop() was called while fetches were in flight; one of them
\* is still fetching and another is backing off before its retry.
C15_Witness ==
    /\ isRunning
    /\ shouldStop
    /\ pc = "awaitChunk"
    /\ \E h \in DOMAIN tasks : tasks[h].st = "backoff"
    /\ \E h \in DOMAIN tasks : tasks[h].st = "fetching" /\ tasks[h].attempt >= 1

\* C17: an engine whose start() rejected does not end the process with an
\* error and ends no other engine.
C17_EngineErrorIsContained ==
    (\E c \in Chains : engine[c] = "rejected") =>
        /\ exitCode # 1
        /\ \A d \in Chains : engine[d] = "killed" => mainPc = "exited" /\ exitCode = 0

\* C16: a running engine that was asked to stop becomes idle; the step that
\* leaves the loop on the stop flag resolves start(); an idle engine accepts
\* start(), which clears the stop flag and runs indexBlocks from the cursor
\* read.
C16_StopTerminates ==
    /\ (isRunning /\ shouldStop) ~> (~isRunning /\ pc = "idle" /\ loops = 0)
    /\ [][(pc = "loop" /\ shouldStop /\ pc' = "idle") =>
            (~isRunning' /\ (startResult' = "resolved" \/ exitCode' # exitCode
                                                      \/ startResult' = "none"))]_vars
    /\ [](~isRunning => ENABLED Start)
    /\ [][(~isRunning /\ isRunning') =>
            (~shouldStop' /\ pc' = "getLastIndexedHeight"
                          /\ startResult' = "pending")]_vars

\* C16 witness: the engine was stopped after it had stored blocks, left the
\* loop, and start() resolved.
C16_Witness ==
    /\ ~isRunning
    /\ shouldStop
    /\ startResult = "resolved"
    /\ db_cursor # Null

\* C18: table blocks holds at most one row per (block_number, chain_id); a
\* key that was never committed has no row, and the row of a committed key
\* carries the timestamp and total_fees of the latest committed INSERT of
\* that key; storing any record a second time leaves the records of the
\* table as they are after storing it once, whenever the second store runs.
C18_IdempotentUpsert ==
    /\ \A r1, r2 \in blocks_table : KeyOf(r1) = KeyOf(r2) => r1 = r2
    /\ \A k \in StoreKeys :
          LET rows == {row \in blocks_table : KeyOf(row) = k}
          IN  IF latestCommit[k] = <<>>
              THEN rows = {}
              ELSE /\ Cardinality(rows) = 1
                   /\ \A row \in rows :
                         <<row.timestamp, row.total_fees>> = latestCommit[k]
    /\ \A rec \in BlockRecords :
          LET once == Upsert(blocks_table, rec, store_now + 1)
              twice == Upsert(once, rec, store_now + 2)
          IN  /\ RecordsOf(twice) = RecordsOf(once)
              /\ Cardinality(twice) = Cardinality(once)
              /\ rec \in RecordsOf(once)

\* C18 witness: a key was committed twice with different values; its one
\* row carries the later values, next to a row of the other chain at the
\* same height.
C18_Witness ==
    \E r1, r2 \in blocks_table :
        /\ r1.block_number = r2.block_number
        /\ r1.chain_id # r2.chain_id
        /\ r1.updated_at > r2.updated_at + 1
        /\ Cardinality(blocks_table) = 2

\* The '<int><denom>' tokens of the description: digits, then a denom.
IsIntDenom(token) ==
    LeadingDigits(token) >= 1 /\ LeadingDigits(token) < Len(token)

\* The tokens between the commas of a value.
TokensOf(value) ==
    [i \in 1 .. Len(SplitComma(value)) |-> Trim(SplitComma(value)[i])]

\* The exact sum for denom over the transactions with code 0, of the
\* '<int><denom>' tokens of the attributes keyed 'fee' or 'tip'.
SumSucceeded(txs_results, denom) ==
    LET RECURSIVE SumTokens(_)
        SumTokens(tokens) ==
            IF tokens = <<>> THEN <<"0">>
            ELSE LET token == Head(tokens)
                     n == LeadingDigits(token)
                 IN  ExactAdd(IF IsIntDenom(token) /\ SubSeq(token, n + 1, Len(token)) = denom
                              THEN StripZeros(SubSeq(token, 1, n)) ELSE <<"0">>,
                              SumTokens(Tail(tokens)))
        RECURSIVE SumAttributes(_)
        SumAttributes(attrs) ==
            IF attrs = <<>> THEN <<"0">>
            ELSE ExactAdd(IF Head(attrs).key \in {"fee", "tip"}
                          THEN SumTokens(TokensOf(Head(attrs).value)) ELSE <<"0">>,
                          SumAttributes(Tail(attrs)))
        RECURSIVE SumTxs(_)
        SumTxs(txs) ==
            IF txs = <<>> THEN <<"0">>
            ELSE ExactAdd(IF Head(txs).code = 0
                          THEN SumAttributes(Head(txs).attributes) ELSE <<"0">>,
                          SumTxs(Tail(txs)))
    IN  SumTxs(txs_results)

\* The denominations of the values drawn.
Denoms ==
    {SubSeq(t, LeadingDigits(t) + 1, Len(t)) :
        t \in {tok \in UNION {{TokensOf(v)[i] : i \in 1 .. Len(TokensOf(v))} : v \in AttrValues} :
                  IsIntDenom(tok)}}

\* The total a returned string gives for denom: '0' gives none for any.
ExtractedTotal(fees, denom) ==
    LET tokens == TokensOf(fees)
        Is(i) == /\ IsIntDenom(tokens[i])
                 /\ SubSeq(tokens[i], LeadingDigits(tokens[i]) + 1, Len(tokens[i])) = denom
    IN  IF \E i \in 1 .. Len(tokens) : Is(i)
        THEN LET token == tokens[CHOOSE i \in 1 .. Len(tokens) : Is(i)]
             IN  StripZeros(SubSeq(token, 1, LeadingDigits(token)))
        ELSE <<"0">>

\* '1000uatom,500uatom' in one transaction and '200uatom' in another
ExampleBlock ==
    [has_txs_results |-> TRUE, txs_results |->
    <<[code |-> 0, attributes |-> <<[key |-> "fee", value |-> <<"1", "0", "0", "0", "u", "a", "t", "o", "m", ",", "5", "0", "0", "u", "a", "t", "o", "m">>]>>],
      [code |-> 0, attributes |-> <<[key |-> "fee", value |-> <<"2", "0", "0", "u", "a", "t", "o", "m">>]>>]>>]

\* C19: for every block result the total extracted for each denomination is
\* the sum, over the transactions with code 0 only, of the amounts of the
\* '<int><denom>' tokens of the attributes keyed 'fee' or 'tip'; a block
\* result with no succeeded transaction yields '0'; '1000uatom,500uatom' and
\* '200uatom' in two transactions yield '1700uatom'.
C19_TotalsAreExactSums ==
    /\ total_fees # <<>> =>
        /\ \A denom \in Denoms :
              ExtractedTotal(total_fees, denom)
                  = SumSucceeded(blockResult.txs_results, denom)
        /\ (\A i \in 1 .. Len(blockResult.txs_results) :
                blockResult.txs_results[i].code # 0) => total_fees = <<"0">>
    /\ extractFeesFromBlock(ExampleBlock) = <<"1", "7", "0", "0", "u", "a", "t", "o", "m">>

\* A text that is a decimal integer, with or without a sign.
IsNumeric(text) ==
    LET body == IF text # <<>> /\ Head(text) \in {"-", "+"} THEN Tail(text) ELSE text
    IN  body # <<>> /\ LeadingDigits(body) = Len(body)

\* A request with both ranges, with neither, with a non-numeric bound of its
\* range, with start > end, or naming an unknown chain. A range is supplied
\* when both its bounds are present and not empty; the value of a numeric
\* text is what parseInt reads from it.
InvalidRequest(q) ==
    LET timeRange == Truthy(q.startTime) /\ Truthy(q.endTime)
        heightRange == Truthy(q.startHeight) /\ Truthy(q.endHeight)
        NonNumeric(startParam, endParam) ==
            ~IsNumeric(startParam.text) \/ ~IsNumeric(endParam.text)
        StartAfterEnd(startParam, endParam) ==
            /\ ~NonNumeric(startParam, endParam)
            /\ parseInt(startParam.text).value > parseInt(endParam.text).value
    IN  \/ timeRange /\ heightRange
        \/ ~timeRange /\ ~heightRange
        \/ timeRange /\ NonNumeric(q.startTime, q.endTime)
        \/ heightRange /\ NonNumeric(q.startHeight, q.endHeight)
        \/ timeRange /\ ~heightRange /\ StartAfterEnd(q.startTime, q.endTime)
        \/ heightRange /\ ~timeRange /\ StartAfterEnd(q.startHeight, q.endHeight)
        \/ /\ q.chainId.given /\ q.chainId.text # ""
           /\ \A i \in 1 .. Len(ConfiguredChains) : ConfiguredChains[i] # q.chainId.text

\* C20: a request with both ranges, with neither, with a non-numeric bound,
\* with start > end, or naming an unknown chain gets a 400 and no storage
\* query is made for it; so a storage query is made, and an answer given,
\* only for exactly one complete range with start <= end.
C20_InvalidRequestIsRejected ==
    apiPc # "idle" =>
        /\ InvalidRequest(req_query) => (res_status = 400 /\ storage_query.kind = "none")
        /\ res_status # 400 => storage_query.kind # "none"

\* C21: the step in which the batch insert or the cursor update of a window
\* fails leaves none of the window's rows stored, the cursor and
\* currentHeight as they were, and every window starts one above
\* currentHeight, so the next one starts at the same height.
C21_FailedCommitIsRolledBack ==
    /\ [][(pc \in {"insertBlocksBatch", "updateIndexingState"} /\ pc' = "sleepError") =>
            /\ Range(blocks) \cap db_blocks' = {}
            /\ db_cursor' = db_cursor
            /\ currentHeight' = currentHeight]_vars
    /\ [](InWindow => batchStart = currentHeight + 1)

\* C22: once the loop has been entered, start() stays pending until the
\* engine leaves; the engine leaves only at the loop test with the stop flag
\* set, and start() resolves then (or the process exits). A failed head
\* query or storage call leads to the 5 s sleep, the sleep leads to the loop
\* test, and the loop test leads to another head query unless a stop was
\* requested; a fetch that fails leaves the engine awaiting its chunk.
C22_LoopSurvivesErrors ==
    /\ [](pc \notin {"idle", "getLastIndexedHeight"} => startResult = "pending")
    /\ [][(pc \notin {"idle", "getLastIndexedHeight"} /\ pc' = "idle") =>
            \/ pc = "loop" /\ shouldStop /\ startResult' = "resolved"
            \/ startResult' = "none"]_vars
    /\ [][(pc' = "sleepError" /\ pc # "sleepError") =>
            pc \in {"getLatestBlockHeight", "insertBlocksBatch",
                    "updateIndexingState", "getBlockCount"}]_vars
    /\ [][(pc = "sleepError" /\ isRunning') => pc' \in {"sleepError", "loop"}]_vars
    /\ [][(pc = "awaitChunk" /\ isRunning' /\ tasks' # tasks) => pc' = "awaitChunk"]_vars
    /\ (pc = "sleepError") ~> (pc = "loop" \/ ~isRunning)
    /\ (pc = "loop" /\ ~shouldStop) ~> (pc = "getLatestBlockHeight" \/ shouldStop \/ ~isRunning)

\* C22 witness: the cursor update failed after the rows were committed; the
\* engine sleeps, was not asked to stop, and start() is pending.
C22_Witness ==
    /\ pc = "sleepError"
    /\ isRunning
    /\ ~shouldStop
    /\ startResult = "pending"
    /\ db_blocks # {}
    /\ db_cursor = Null

C24_NotFoundAbandonsAtOnce ==
    /\ [](\A h \in DOMAIN batchPromises : batchPromises[h].nf = "no")
    /\ [](\A h \in DOMAIN pbSettled :
            pbSettled[h] = "noRecord" => h \notin Range(pbBlocks))
    /\ [][\A h \in DOMAIN batchPromises :
            (h \notin DOMAIN batchPromises' /\ pbSettled'[h] = "noRecord") =>
                /\ batchPromises[h].st = "fetching"
                /\ pbBlocks' = pbBlocks
                /\ \A x \in DOMAIN batchPromises \ {h} :
                      x \in DOMAIN batchPromises' /\ batchPromises'[x] = batchPromises[x]]_vars

\* C24 as the code has it: an attempt fails with the failure of the first of
\* its two fetches to fail. If that failure is not-found, the height is
\* abandoned at once: it is neither retried nor slept on, its call yields no
\* record and no error, no record of it enters the batch, and the other
\* heights of the window are unaffected. A not-found of the other fetch,
\* after the attempt has failed with another error, is not seen.
C24_FirstNotFoundAbandons ==
    /\ [](\A h \in DOMAIN batchPromises : batchPromises[h].nf # "first")
    /\ [](\A h \in DOMAIN pbSettled :
            pbSettled[h] = "noRecord" => h \notin Range(pbBlocks))
    /\ [][\A h \in DOMAIN batchPromises :
            (h \notin DOMAIN batchPromises' /\ pbSettled'[h] = "noRecord") =>
                /\ batchPromises[h].st = "fetching"
                /\ pbSettled' = Settle(h, "noRecord")
                /\ pbBlocks' = pbBlocks
                /\ \A x \in DOMAIN batchPromises \ {h} :
                      x \in DOMAIN batchPromises' /\ batchPromises'[x] = batchPromises[x]]_vars

\* C24 witness: in a window of two heights the call of the lower one has
\* returned no record, while the other height is still being fetched on its
\* first attempt; nothing has been pushed.
C24_Witness ==
    /\ endHeight = startHeight + 1
    /\ startHeight \in DOMAIN pbSettled
    /\ pbSettled[startHeight] = "noRecord"
    /\ endHeight \in DOMAIN batchPromises
    /\ batchPromises[endHeight] = Fetching(0)
    /\ pbBlocks = <<>>

C26_NoPipelining ==
    /\ [](DOMAIN tasks # {} =>
            /\ pc = "awaitChunk"
            /\ \A h \in DOMAIN tasks : batchStart <= h /\ h <= batchEnd)
    /\ [](pc \in {"insertBlocksBatch", "updateIndexingState", "getBlockCount",
                  "loop", "getLatestBlockHeight"} => DOMAIN tasks = {})
    /\ [][(DOMAIN tasks' \ DOMAIN tasks # {}) => DOMAIN tasks = {}]_vars
    /\ [][(db_blocks' # db_blocks \/ db_cursor' # db_cursor) => DOMAIN tasks = {}]_vars

\* C26 witness: the second window of a run is being fetched after the first
\* one was committed with one of its two heights left out.
C26_Witness ==
    /\ pc = "awaitChunk"
    /\ DOMAIN tasks # {}
    /\ batchStart = StartHeight + 2
    /\ db_blocks = {StartHeight}
    /\ db_cursor = StartHeight + 1

\* C27: the batch processBatch returns holds exactly the heights whose
\* processBlock call returned a record, each once, in strictly ascending
\* order, in whichever order the calls completed.
C27_BatchIsSortedRecords ==
    /\ Range(pbBlocks) = {h \in DOMAIN pbSettled : pbSettled[h] = "record"}
    /\ Cardinality(Range(pbBlocks)) = Len(pbBlocks)
    /\ pbPc = "returned" =>
          \A i \in 1 .. (Len(pbBlocks) - 1) : pbBlocks[i] < pbBlocks[i + 1]

\* C27 witness: processBatch has returned the two upper heights of a window
\* of three, in ascending order; the call of the lowest height gave no
\* record.
C27_Witness ==
    /\ pbPc = "returned"
    /\ endHeight = startHeight + 2
    /\ pbBlocks = <<startHeight + 1, endHeight>>
    /\ pbSettled[startHeight] # "record"

\* C28: a window whose storage calls did not fail ends with currentHeight at
\* the window's upper bound, whether or not its heights gave a record; from
\* then on and for the rest of the run currentHeight does not go back and
\* every fetch is for a height above it, so a height that was left out is
\* not fetched again.
C28_NoBackfill ==
    /\ [][(pc \in {"dispatch", "getBlockCount"} /\ pc' = "loop") =>
            currentHeight' = batchEnd]_vars
    /\ [][(pc \notin {"idle", "getLastIndexedHeight"} /\
           pc' \notin {"idle", "getLastIndexedHeight"}) =>
            currentHeight' >= currentHeight]_vars
    /\ [](\A h \in DOMAIN tasks : h > currentHeight)
    /\ [](InWindow => batchStart > currentHeight)

\* C28 witness: the window of the first two heights was committed with its
\* lower height left out, and the loop is at its test with currentHeight at
\* the upper one.
C28_Witness ==
    /\ pc = "loop"
    /\ isRunning
    /\ currentHeight = StartHeight + 1
    /\ prevEnd = StartHeight + 1
    /\ db_blocks = {StartHeight + 1}
    /\ db_cursor = StartHeight + 1

\* C29: of every comma-separated token of a parsed attribute the amount is
\* the longest leading integer or decimal number and the denom is exactly
\* the rest; a token without a leading number, with an amount that is not
\* above 0, or with nothing after its longest leading number (a bare '123'
\* or '1.5') adds nothing.
C29_LongestLeadingNumber ==
    LET \* length of the longest leading number of a token
        NumberLength(token) ==
            LET n == LeadingDigits(token)
                after == SubSeq(token, n + 1, Len(token))
                m == IF after # <<>> /\ Head(after) = "."
                     THEN LeadingDigits(Tail(after)) ELSE 0
            IN  IF n >= 1 /\ m >= 1 THEN n + 1 + m ELSE n
        \* the entries the token adds to an empty Map
        Described(token) ==
            LET k == NumberLength(token)
            IN  IF k = 0 \/ k = Len(token) THEN <<>>
                ELSE IF parseFloat(SubSeq(token, 1, k)) = <<"0">> THEN <<>>
                ELSE << <<SubSeq(token, k + 1, Len(token)), parseFloat(SubSeq(token, 1, k))>> >>
    IN  total_fees # <<>> =>
            \A i \in 1 .. Len(blockResult.txs_results) :
                \A j \in 1 .. Len(blockResult.txs_results[i].attributes) :
                    LET attr == blockResult.txs_results[i].attributes[j]
                    IN  (blockResult.txs_results[i].code = 0 /\ attr.key \in {"fee", "tip"}) =>
                            \A t \in 1 .. Len(TokensOf(attr.value)) :
                                parseFeeValue(TokensOf(attr.value)[t], <<>>)
                                    = Described(TokensOf(attr.value)[t])

\* C30: in every reachable state of a client with N URLs, with any number of
\* its calls in flight and interleaved in any way, the round-robin pointer
\* is in 0 .. N-1, the sticky pointer is unset or in 0 .. N-1, and a sticky
\* pointer that is set equals the round-robin pointer.
C30_PointersInRange ==
    /\ currentClientIndex \in 0 .. (NumEndpoints - 1)
    /\ workingRpcIndex = Null \/ workingRpcIndex \in 0 .. (NumEndpoints - 1)
    /\ workingRpcIndex # Null => workingRpcIndex = currentClientIndex

\* C30 witness: after a rotation past the first URL the client is pinned to
\* the last URL while two calls are in flight, one of which has rotated.
C30_Witness ==
    /\ workingRpcIndex = NumEndpoints - 1
    /\ currentClientIndex = NumEndpoints - 1
    /\ \A c \in Calls : InFlight(c)
    /\ \E c \in Calls : call[c].rotations >= 1

\* C31: a pinned sticky endpoint is unpinned only by the failure of a request
\* that was sent to that endpoint: with several calls in flight on a client,
\* the late failure of a request sent to another endpoint neither unpins nor
\* rotates away from an endpoint that a successful call has pinned since.
C31_UnpinnedOnlyByOwnFailure ==
    [][(workingRpcIndex # Null /\
        (workingRpcIndex' # workingRpcIndex \/ currentClientIndex' # currentClientIndex)) =>
            \E c \in Calls :
                /\ InFlight(c)
                /\ call'[c].rotations = call[c].rotations + 1
                /\ call[c].url = workingRpcIndex]_vars

\* C32: every height from start_height up to the persisted cursor had a
\* fetch dispatched before the cursor went past it; when stop() is called
\* while a window is being dispatched, the cursor does not go past the
\* heights of the window that were never dispatched.
C32_CursorCoversDispatched ==
    db_cursor # Null =>
        \A h \in StartHeight .. db_cursor :
            h \in DOMAIN pbSettled \cup DOMAIN batchPromises

\* C33: if the chain head stays at MaxHead, stop() is never called and from
\* some point on no RPC call and no storage call fails, then a running
\* engine reaches a state where the persisted cursor equals MaxHead and a
\* BlockRecord is stored for every height from the resume point up to
\* MaxHead.
C33_ReachesHead ==
    (<>[][~CallFails]_vars) =>
        ((pc = "loop") ~>
            (/\ db_cursor = MaxHead
             /\ \A h \in (InitialHeight(lastHeight) + 1) .. MaxHead :
                    h \in db_blocks))

====
